---- MODULE Spec2Model ----
(***************************************************************************)
(* RequestHandler of src/modules/request-handler/index.js: the validation  *)
(* pipeline, the query translator, the mode resolver and the four CRUD     *)
(* operations, driven against an adapter whose calls return promises.      *)
(*                                                                         *)
(* A JavaScript value that may be undefined is a sequence of length at     *)
(* most one: <<>> is undefined, <<v>> is the value v.  A string the code   *)
(* searches, splits or compares is the sequence of its character codes.    *)
(***************************************************************************)
EXTENDS Integers, Sequences, FiniteSets, TLC

\* ------------------------------------------------------------------ bounds
NumIds == 2          \* resource ids 1..NumIds
MaxInFlight == 2     \* request slots (operations in flight at once)
MaxValidators == 2   \* longest list of resource-specific validators

\* The id k is the one-character string of the digit k.
Ids == { <<48 + k>> : k \in 1..NumIds }
Slots == 1..MaxInFlight

\* --------------------------------------------------------------- JS values
None == <<>>
Some(v) == <<v>>
\* `if (x)` / `!!x` for an object or undefined, and for a string or undefined
\* (the empty string is falsy).
Truthy(x) == x # None
TruthyStr(x) == x # None /\ Len(x[1]) > 0

COLLECTION_MODE == "collection"
SINGLE_MODE == "single"
RELATION_MODE == "relation"
RELATED_MODE == "related"
IndeterminateMode == "Kapow400"

TypeName == "chapters"
Relations == {"book"}
Methods == {"POST", "PATCH"}

\* ------------------------------------------------------------------ errors
\* An error is [kind, status, message]: status is None until tagged,
\* message is None when the rejection value carries no message.
Err(kind, status, message) == [kind |-> kind, status |-> status, message |-> message]
Kapow(status, message) == Err("Kapow", Some(status), Some(message))
KapowWrap(e, status) == [e EXCEPT !.status = Some(status)]
\* "TypeError"
TypeError == Err("TypeError", None, Some(<<84, 121, 112, 101, 69, 114, 114, 111, 114>>))
\* new Error('not implemented')
NotImplemented ==
  Err("Error", None,
      Some(<<110, 111, 116, 32, 105, 109, 112, 108, 101, 109, 101, 110, 116, 101, 100>>))

NullLiteral == <<110, 117, 108, 108>>            \* 'null'
CommaLiteral == <<44>>                           \* ','

\* What the adapter may reject with: messages "NOT NULL", "is null!", "NulL",
\* "nul", "nunull", "busy", or no message at all.
AdapterMessages ==
  { Some(<<78, 79, 84, 32, 78, 85, 76, 76>>),
    Some(<<105, 115, 32, 110, 117, 108, 108, 33>>),
    Some(<<78, 117, 108, 76>>),
    Some(<<110, 117, 108>>),
    Some(<<110, 117, 110, 117, 108, 108>>),
    Some(<<98, 117, 115, 121>>),
    None }
AdapterErrors ==
  { Err("Error", None, m) : m \in AdapterMessages }
    \cup { Err("Kapow", Some(500), Some(<<98, 117, 115, 121>>)),
           Err("Kapow", Some(500), Some(<<78, 85, 76, 76>>)) }

\* String.prototype.toLowerCase: 'A'..'Z' (65..90) move up by 32.
ToLowerCase(s) == [i \in 1..Len(s) |-> IF s[i] \in 65..90 THEN s[i] + 32 ELSE s[i]]

\* String.prototype.indexOf, zero-based, -1 when `needle` does not occur.
OccursAt(s, needle, i) ==
  /\ i + Len(needle) <= Len(s)
  /\ \A k \in 1..Len(needle) : s[i + k] = needle[k]
IndexOf(s, needle) ==
  LET hits == { i \in 0..Len(s) : OccursAt(s, needle, i) }
  IN IF hits = {} THEN -1 ELSE CHOOSE i \in hits : \A j \in hits : i <= j

\* String.prototype.split on a one-character separator.
RECURSIVE SplitFrom(_, _, _, _)
SplitFrom(s, sep, i, cur) ==
  IF i > Len(s) THEN <<cur>>
  ELSE IF s[i] = sep[1] THEN <<cur>> \o SplitFrom(s, sep, i + 1, <<>>)
  ELSE SplitFrom(s, sep, i + 1, Append(cur, s[i]))
Split(s, sep) == SplitFrom(s, sep, 1, <<>>)

\* ---------------------------------------------------------- configuration
\* The resource-specific validators a configuration may declare, and every
\* list of them of length at most MaxValidators.
UserValidators == {"vA", "vB"}
ValidatorLists ==
  UNION { [1..n -> UserValidators] : n \in 0..MaxValidators }

\* A mapping is a function from keys to tagged values: a list of strings
\* [list |-> <<...>>] or a single string [scalar |-> s].
FList(xs) == [list |-> xs]
FScalar(x) == [scalar |-> x]
EmptyMap == [k \in {} |-> FList(<<>>)]
Put(m, key, v) == [k \in DOMAIN m \cup {key} |-> IF k = key THEN v ELSE m[k]]

\* Default include/filter/fields/sort of a configuration: none at all, empty
\* defaults, or a default filter `title: ['a']` with include ['b'].
QueryDefaults ==
  { [include |-> None, filter |-> None, fields |-> None, sort |-> None],
    [include |-> None, filter |-> Some(EmptyMap), fields |-> Some(EmptyMap),
     sort |-> None],
    [include |-> Some(<< <<98>> >>),
     filter |-> Some([title |-> FList(<< <<97>> >>)]),
     fields |-> Some(EmptyMap), sort |-> Some(<< <<97>> >>)] }

\* The configurations a handler may be constructed with; the constructor
\* stores adapter.typeName() in it.  `owner` names the object graph the value
\* lives in: the handler's own configuration, or a per-request copy.
Configs ==
  { [owner |-> "handler", validators |-> vs, method |-> m, typeName |-> TypeName,
     include |-> d.include, filter |-> d.filter, fields |-> d.fields,
     sort |-> d.sort] :
      vs \in ValidatorLists, m \in Methods, d \in QueryDefaults }

\* ---------------------------------------------------------------- requests
NoParams == [id |-> None, relation |-> None, related |-> None]
NoQuery == [include |-> None, filter |-> None, fields |-> None, sort |-> None]

\* body.data: a resource object with or without a client-supplied id.
DataValues == { [type |-> TypeName, id |-> i] : i \in {None} \cup { Some(k) : k \in Ids } }
\* A parsed body: without a data member, or with one.
Bodies == { Some([data |-> None]) } \cup { Some([data |-> Some(d)]) : d \in DataValues }

\* Path parameters: a router never yields an empty segment, so a parameter
\* is absent or a non-empty string.
ParamSets ==
  { [id |-> i, relation |-> r, related |-> t] :
      i \in {None} \cup { Some(k) : k \in Ids },
      r \in {None} \cup { Some(x) : x \in Relations },
      t \in {None} \cup { Some(x) : x \in Relations } }

\* Raw query strings: nothing; filter[title]=a; filter[id]=<last id>,1 with
\* include=a,b and sort=-a; an empty include= with fields[chapters]=a.
Queries ==
  { NoQuery,
    [NoQuery EXCEPT !.filter = Some([title |-> <<97>>])],
    [NoQuery EXCEPT !.filter = Some([id |-> <<48 + NumIds, 44, 49>>]),
                    !.include = Some(<<97, 44, 98>>),
                    !.sort = Some(<<45, 97>>)],
    [NoQuery EXCEPT !.include = Some(<<>>),
                    !.fields = Some([chapters |-> <<97>>])] }

\* The validators that would report an error for the request stand for the
\* headers and the body shape they inspect.
AllValidators == {"verifyAccept", "verifyContentType", "verifyDataObject"} \cup UserValidators

Request(params, query, body, rejectedBy) ==
  [params |-> params, query |-> query, body |-> body, rejectedBy |-> rejectedBy]
NoRequest == Request(NoParams, NoQuery, None, {})

\* ------------------------------------------------------------- validators
\* A validator called with (request, handler): its error, or undefined.
CallValidator(v, request) ==
  IF v \in request.rejectedBy THEN Some(Err(v, Some(400), None)) ELSE None

\* Faulty variant of Pipeline: the configuration's validators come first.
PipelineUserFirst(request, config) ==
  LET builtin == <<"verifyAccept">>
      withBody ==
        IF Truthy(request.body) /\ Truthy(request.body[1].data)
        THEN builtin \o <<"verifyContentType", "verifyDataObject">>
        ELSE builtin
  IN config.validators \o withBody

\* validate, lines 44-51: the list of validators to run.
Pipeline(request, config) ==
  LET builtin == <<"verifyAccept">>
      withBody ==
        IF Truthy(request.body) /\ Truthy(request.body[1].data)
        THEN builtin \o <<"verifyContentType", "verifyDataObject">>
        ELSE builtin
  IN withBody \o config.validators

\* validate, lines 53-58: the loop from index i on; `invoked` is the list of
\* validators called so far.
\* Faulty variant of RunValidators: the loop never breaks.
RECURSIVE RunValidatorsNoBreak(_, _, _, _, _)
RunValidatorsNoBreak(validators, request, i, invoked, last) ==
  IF i > Len(validators) THEN [err |-> last, invoked |-> invoked]
  ELSE LET err == CallValidator(validators[i], request)
       IN RunValidatorsNoBreak(validators, request, i + 1,
                               Append(invoked, validators[i]), err)

RECURSIVE RunValidators(_, _, _, _, _)
RunValidators(validators, request, i, invoked, last) ==
  IF i > Len(validators) THEN [err |-> last, invoked |-> invoked]
  ELSE LET err == CallValidator(validators[i], request)
       IN IF Truthy(err)
          THEN [err |-> err, invoked |-> Append(invoked, validators[i])]
          ELSE RunValidators(validators, request, i + 1,
                             Append(invoked, validators[i]), err)

\* ------------------------------------------------------ query translator
\* Faulty variant of CloneDeep: no copy is taken.
CloneDeepShared(owned) == owned

\* _.cloneDeep: a copy that shares no object with its argument.
CloneDeep(owned) == [owned EXCEPT !.owner = "request"]

\* splitStringProps: every property's comma-separated string becomes a list.
SplitStringProps(m) == [k \in DOMAIN m |-> FList(Split(m[k], CommaLiteral))]

\* query, lines 67-83.  `shared` lists the members of the descriptor that are
\* the handler configuration's own objects rather than fresh ones.
Query(request, thisConfig) ==
  LET config == CloneDeep(thisConfig)
      query == request.query
      include == query.include
      filter == query.filter
      fields == query.fields
      sort == query.sort
      defaults ==
        { k \in {"include", "filter", "fields", "sort"} :
            \/ k = "include" /\ ~TruthyStr(include) /\ Truthy(config.include)
            \/ k = "filter" /\ ~Truthy(filter) /\ Truthy(config.filter)
            \/ k = "fields" /\ ~Truthy(fields) /\ Truthy(config.fields)
            \/ k = "sort" /\ ~TruthyStr(sort) /\ Truthy(config.sort) }
  IN [include |-> IF TruthyStr(include) THEN Some(Split(include[1], CommaLiteral))
                  ELSE config.include,
      filter |-> IF Truthy(filter) THEN Some(SplitStringProps(filter[1]))
                 ELSE config.filter,
      fields |-> IF Truthy(fields) THEN Some(SplitStringProps(fields[1]))
                 ELSE config.fields,
      sort |-> IF TruthyStr(sort) THEN Some(Split(sort[1], CommaLiteral))
               ELSE config.sort,
      shared |-> IF config.owner = "handler" THEN defaults ELSE {}]

\* ----------------------------------------------------------- mode resolver
\* Faulty variant of Mode: `related` is tested before `relation`.
ModeRelatedFirst(request) ==
  LET hasIdParam == TruthyStr(request.params.id)
      hasRelationParam == Truthy(request.params.relation)
      hasRelatedParam == Truthy(request.params.related)
  IN IF ~hasIdParam THEN COLLECTION_MODE
     ELSE IF ~hasRelationParam /\ ~hasRelatedParam THEN SINGLE_MODE
     ELSE IF hasRelatedParam THEN RELATED_MODE
     ELSE IF hasRelationParam THEN RELATION_MODE
     ELSE IndeterminateMode

\* mode, lines 90-112.
Mode(request) ==
  LET hasIdParam == TruthyStr(request.params.id)
      hasRelationParam == Truthy(request.params.relation)
      hasRelatedParam == Truthy(request.params.related)
  IN IF ~hasIdParam THEN COLLECTION_MODE
     ELSE IF ~hasRelationParam /\ ~hasRelatedParam THEN SINGLE_MODE
     ELSE IF hasRelationParam THEN RELATION_MODE
     ELSE IF hasRelatedParam THEN RELATED_MODE
     ELSE IndeterminateMode

\* ----------------------------------------------------------------- adapter
Model(id) == [id |-> id]
Rows(ids) == [rows |-> ids]

Pending == [state |-> "pending", value |-> None]
Resolved(v) == [state |-> "resolved", value |-> v]
Rejected(e) == [state |-> "rejected", value |-> Some(e)]
Thrown(e) == [state |-> "thrown", value |-> Some(e)]
Returned(v) == [state |-> "returned", value |-> v]

\* An adapter call as issued: its promise is pending.
Call(fn, args) == [fn |-> fn, args |-> args, outcome |-> Pending]

\* lib/throw_if_model: throws a 409 conflict when the lookup found a model.
ThrowIfModel(model) ==
  IF Truthy(model)
  THEN [threw |-> TRUE, value |-> Some(Kapow(409, <<99, 111, 110, 102, 108, 105, 99, 116>>))]
  ELSE [threw |-> FALSE, value |-> model]

\* lib/throw_if_no_model: throws a 404 when the lookup found nothing, and
\* passes the model on otherwise.
ThrowIfNoModel(model) ==
  IF ~Truthy(model)
  THEN [threw |-> TRUE, value |-> Some(Kapow(404, <<110, 111, 116, 32, 102, 111, 117, 110, 100>>))]
  ELSE [threw |-> FALSE, value |-> model]

\* ------------------------------------------------------------------- state
VARIABLES
  config,   \* this.config of the one handler
  store,    \* ids of the resources the adapter's store holds
  live,     \* the slots callers may use
  slot      \* per slot: the operation in flight and what it has done

vars == <<config, store, live, slot>>

\* pc: "idle", "pending" (the last adapter call is in flight), "settled" (its
\* promise has settled, the callbacks have not run yet), "done".
\* data: the closure variable `data` of create/update.
\* calls: the adapter calls issued so far, each with its outcome.
IdleSlot ==
  [pc |-> "idle", op |-> "none", req |-> NoRequest, mode |-> "none",
   data |-> None, pipeline |-> <<>>, invoked |-> <<>>, calls |-> <<>>,
   result |-> [state |-> "none", value |-> None]]

Init ==
  /\ config \in Configs
  /\ store \in SUBSET Ids
  /\ live = {1}
  /\ slot = [s \in Slots |-> IdleSlot]

Free(s) == s \in live /\ slot[s].pc = "idle"
LastCall(s) == slot[s].calls[Len(slot[s].calls)]
\* Faulty variant of Settled: the callbacks run while the call is in flight.
SettledEarly(s, op, fns) ==
  /\ slot[s].pc \in {"pending", "settled"}
  /\ slot[s].op = op
  /\ LastCall(s).fn \in fns
Settled(s, op, fns) ==
  /\ slot[s].pc = "settled"
  /\ slot[s].op = op
  /\ LastCall(s).fn \in fns

\* Slot s as a call of `op` with `request` leaves it: one adapter call issued
\* and the pending result returned, or the call thrown out of synchronously.
Started(op, request, data, mode, call) ==
  [IdleSlot EXCEPT !.pc = "pending", !.op = op, !.req = request, !.data = data,
                   !.mode = mode, !.calls = <<call>>, !.result = Pending]
\* Faulty variant of Threw: the lookup is issued before the call throws.
ThrewAfterLookup(op, request, mode, e) ==
  [IdleSlot EXCEPT !.pc = "done", !.op = op, !.req = request, !.mode = mode,
                   !.calls = <<Call("byId", [id |-> request.params.id,
                                             relation |-> None])>>,
                   !.result = Thrown(e)]
Threw(op, request, mode, e) ==
  [IdleSlot EXCEPT !.pc = "done", !.op = op, !.req = request, !.mode = mode,
                   !.result = Thrown(e)]
\* A callback of slot s issues the next adapter call and waits for it.
Issue(s, call) ==
  slot' = [slot EXCEPT ![s].calls = Append(@, call), ![s].pc = "pending"]
\* The pending result of the operation of slot s settles.
Finish(s, result) ==
  slot' = [slot EXCEPT ![s].result = result, ![s].pc = "done"]

\* ---------------------------------------------------------------- validate
ValidateRequests ==
  { Request(NoParams, NoQuery, b, r) :
      b \in {None} \cup Bodies, r \in SUBSET AllValidators }

\* validate, lines 41-60.
Validate(s) ==
  /\ Free(s)
  /\ \E request \in ValidateRequests :
       LET validators == Pipeline(request, config)
           run == RunValidators(validators, request, 1, <<>>, None)
       IN slot' = [slot EXCEPT ![s] =
            [IdleSlot EXCEPT !.pc = "done", !.op = "validate", !.req = request,
                             !.pipeline = validators, !.invoked = run.invoked,
                             !.result = Returned(run.err)]]
  /\ UNCHANGED <<config, store, live>>

\* ------------------------------------------------------------------ create
\* POST /<type>: a parsed body, no path parameters.
CreateRequests == { Request(NoParams, NoQuery, b, {}) : b \in Bodies }

\* Faulty variant of Create: the lookup is issued whenever data is present.
CreateLooksUpAlways(s) ==
  /\ Free(s)
  /\ \E request \in CreateRequests :
       LET adapterMethod == config.method
           data == request.body[1].data
       IN slot' = [slot EXCEPT ![s] =
            IF Truthy(data)
            THEN Started("create", request, data, "none",
                         Call("byId", [id |-> data[1].id, relation |-> None]))
            ELSE Started("create", request, data, "none",
                         Call("create", [method |-> adapterMethod, data |-> data]))]
  /\ UNCHANGED <<config, store, live>>

\* create, lines 119-134: the synchronous part.
Create(s) ==
  /\ Free(s)
  /\ \E request \in CreateRequests :
       LET adapterMethod == config.method
           data == request.body[1].data
       IN slot' = [slot EXCEPT ![s] =
            IF Truthy(data) /\ TruthyStr(data[1].id)
            THEN Started("create", request, data, "none",
                         Call("byId", [id |-> data[1].id, relation |-> None]))
            ELSE Started("create", request, data, "none",
                         Call("create", [method |-> adapterMethod, data |-> data]))]
  /\ UNCHANGED <<config, store, live>>

\* Faulty variant of CreateThen: the throwIfModel callback is missing.
CreateThenNoThrow(s) ==
  /\ Settled(s, "create", {"byId"})
  /\ LET found == LastCall(s).outcome
     IN IF found.state = "rejected"
        THEN Finish(s, found)
        ELSE Issue(s, Call("create", [method |-> config.method, data |-> slot[s].data]))
  /\ UNCHANGED <<config, store, live>>

\* create, lines 126-130: the callbacks chained on the lookup.
CreateThen(s) ==
  /\ Settled(s, "create", {"byId"})
  /\ LET found == LastCall(s).outcome
         checked == ThrowIfModel(found.value)
     IN IF found.state = "rejected"
        THEN Finish(s, found)
        ELSE IF checked.threw
        THEN Finish(s, Rejected(checked.value[1]))
        ELSE Issue(s, Call("create", [method |-> config.method, data |-> slot[s].data]))
  /\ UNCHANGED <<config, store, live>>

\* ------------------------------------------------------------------ update
\* PATCH /<type>/:id and PATCH /<type>/:id/links/:relation, a parsed body.
UpdateRequests ==
  { Request([NoParams EXCEPT !.id = Some(i), !.relation = r], NoQuery, b, {}) :
      i \in Ids, r \in {None} \cup { Some(x) : x \in Relations }, b \in Bodies }

\* Faulty variant of UpdateData: the relation envelope is never built.
UpdateDataNoEnvelope(request, typeName) == request.body[1].data

\* update, lines 178-186: the payload handed to adapter.update.
UpdateData(request, typeName) ==
  LET relation == request.params.relation
  IN IF Truthy(relation)
     THEN Some([type |-> typeName,
                links |-> [r \in {relation[1]} |-> request.body[1].data]])
     ELSE request.body[1].data

\* Faulty variant of UpdateCatch: the message is searched without toLowerCase.
UpdateCatchCaseSensitive(e) ==
  IF ~Truthy(e.message) THEN TypeError
  ELSE IF IndexOf(e.message[1], NullLiteral) # -1 THEN KapowWrap(e, 409)
  ELSE e

\* Faulty variant of UpdateCatch: every error with a message is tagged 409.
UpdateCatchAlways(e) ==
  IF ~Truthy(e.message) THEN TypeError ELSE KapowWrap(e, 409)

\* update, lines 192-198: the error the catch callback throws for the
\* rejection value e.  Reading e.message.toLowerCase of a value without a
\* message is a TypeError.
UpdateCatch(e) ==
  IF ~Truthy(e.message) THEN TypeError
  ELSE IF IndexOf(ToLowerCase(e.message[1]), NullLiteral) # -1 THEN KapowWrap(e, 409)
  ELSE e

\* update, lines 173-188: the synchronous part.
Update(s) ==
  /\ Free(s)
  /\ \E request \in UpdateRequests :
       LET id == request.params.id
           data == UpdateData(request, TypeName)
       IN slot' = [slot EXCEPT ![s] =
            Started("update", request, data, "none",
                    Call("byId", [id |-> id, relation |-> None]))]
  /\ UNCHANGED <<config, store, live>>

\* update, lines 189-198: the callbacks chained on the lookup.
UpdateThen(s) ==
  /\ Settled(s, "update", {"byId"})
  /\ LET found == LastCall(s).outcome
         checked == ThrowIfNoModel(found.value)
     IN IF found.state = "rejected"
        THEN Finish(s, Rejected(UpdateCatch(found.value[1])))
        ELSE IF checked.threw
        THEN Finish(s, Rejected(UpdateCatch(checked.value[1])))
        ELSE Issue(s, Call("update", [model |-> checked.value,
                                      method |-> config.method,
                                      data |-> slot[s].data]))
  /\ UNCHANGED <<config, store, live>>

\* update, lines 191-198: adapter.update has settled.
UpdateSettle(s) ==
  /\ Settled(s, "update", {"update"})
  /\ LET outcome == LastCall(s).outcome
     IN IF outcome.state = "rejected"
        THEN Finish(s, Rejected(UpdateCatch(outcome.value[1])))
        ELSE Finish(s, outcome)
  /\ UNCHANGED <<config, store, live>>

\* ----------------------------------------------------------------- destroy
\* DELETE /<type>/:id.
DestroyRequests ==
  { Request([NoParams EXCEPT !.id = Some(i)], NoQuery, None, {}) : i \in Ids }

\* destroy, lines 206-211: the synchronous part.
Destroy(s) ==
  /\ Free(s)
  /\ \E request \in DestroyRequests :
       slot' = [slot EXCEPT ![s] =
         Started("destroy", request, None, "none",
                 Call("byId", [id |-> request.params.id, relation |-> None]))]
  /\ UNCHANGED <<config, store, live>>

\* Faulty variant of DestroyThen: adapter.destroy is called whatever was found.
DestroyThenAlways(s) ==
  /\ Settled(s, "destroy", {"byId"})
  /\ LET found == LastCall(s).outcome
     IN IF found.state = "rejected"
        THEN Finish(s, found)
        ELSE Issue(s, Call("destroy", [model |-> found.value, method |-> config.method]))
  /\ UNCHANGED <<config, store, live>>

\* destroy, lines 211-215: the callback chained on the lookup.
DestroyThen(s) ==
  /\ Settled(s, "destroy", {"byId"})
  /\ LET found == LastCall(s).outcome
         model == found.value
     IN IF found.state = "rejected"
        THEN Finish(s, found)
        ELSE IF Truthy(model)
        THEN Issue(s, Call("destroy", [model |-> model, method |-> config.method]))
        ELSE Finish(s, Resolved(None))
  /\ UNCHANGED <<config, store, live>>

\* -------------------------------------------------------------------- read
\* GET with any combination of path parameters and a raw query string.
ReadRequests == { Request(p, q, None, {}) : p \in ParamSets, q \in Queries }

\* The descriptor as the adapter receives it.
Descriptor(query) ==
  [include |-> query.include, filter |-> query.filter,
   fields |-> query.fields, sort |-> query.sort]

\* read, lines 141-166: the synchronous part.  Assigning query.filter.id
\* when the descriptor has no filter is a TypeError; the assignment reaches
\* this.config when the filter object is the configuration's own.
ReadOf(s, requests) ==
  /\ Free(s)
  /\ \E request \in requests :
       LET query == Query(request, config)
           mode == Mode(request)
           params == request.params
           id == params.id
           injected == [query EXCEPT !.filter = Some(Put(@[1], "id", FScalar(id[1])))]
       IN IF mode = RELATED_MODE
          THEN /\ slot' = [slot EXCEPT ![s] =
                    Started("read", request, Some(Descriptor(query)), mode,
                            Call("byId", [id |-> id, relation |-> params.related]))]
               /\ UNCHANGED config
          ELSE IF mode = RELATION_MODE
          THEN /\ slot' = [slot EXCEPT ![s] = Threw("read", request, mode, NotImplemented)]
               /\ UNCHANGED config
          ELSE IF TruthyStr(id)
          THEN IF ~Truthy(query.filter)
               THEN /\ slot' = [slot EXCEPT ![s] = Threw("read", request, mode, TypeError)]
                    /\ UNCHANGED config
               ELSE /\ slot' = [slot EXCEPT ![s] =
                         Started("read", request, Some(Descriptor(injected)), mode,
                                 Call("read", [query |-> Descriptor(injected),
                                               mode |-> mode]))]
                    /\ config' = IF "filter" \in query.shared
                                 THEN [config EXCEPT !.filter = injected.filter]
                                 ELSE config
          ELSE /\ slot' = [slot EXCEPT ![s] =
                    Started("read", request, Some(Descriptor(query)), mode,
                            Call("read", [query |-> Descriptor(query), mode |-> mode]))]
               /\ UNCHANGED config
  /\ UNCHANGED <<store, live>>

\* read called with any request.
Read(s) == ReadOf(s, ReadRequests)

\* Faulty variant of ReadThen: the throwIfNoModel callback is missing.
ReadThenNoThrow(s) ==
  /\ Settled(s, "read", {"byId"})
  /\ LET found == LastCall(s).outcome
     IN IF found.state = "rejected"
        THEN Finish(s, found)
        ELSE Issue(s, Call("related", [query |-> slot[s].data[1],
                                       relation |-> slot[s].req.params.related,
                                       model |-> found.value]))
  /\ UNCHANGED <<config, store, live>>

\* read, lines 152-153: the callbacks chained on the lookup of `related` mode.
ReadThen(s) ==
  /\ Settled(s, "read", {"byId"})
  /\ LET found == LastCall(s).outcome
         checked == ThrowIfNoModel(found.value)
     IN IF found.state = "rejected"
        THEN Finish(s, found)
        ELSE IF checked.threw
        THEN Finish(s, Rejected(checked.value[1]))
        ELSE Issue(s, Call("related", [query |-> slot[s].data[1],
                                       relation |-> slot[s].req.params.related,
                                       model |-> checked.value]))
  /\ UNCHANGED <<config, store, live>>

\* The promise create, destroy and read return is the one of their last
\* adapter call (lines 128/132, 213, 153/165): it takes that call's outcome.
Adopt(s) ==
  /\ \/ Settled(s, "create", {"create"})
     \/ Settled(s, "destroy", {"destroy"})
     \/ Settled(s, "read", {"read", "related"})
  /\ Finish(s, LastCall(s).outcome)
  /\ UNCHANGED <<config, store, live>>

\* ------------------------------------------------------- adapter (environment)
\* What a call resolves to, given the store.
ResolvesTo(call, newId) ==
  CASE call.fn = "byId" ->
         IF Truthy(call.args.id) /\ call.args.id[1] \in store
         THEN Some(Model(call.args.id[1])) ELSE None
    [] call.fn = "create" -> Some(Model(newId))
    [] call.fn = "update" -> call.args.model
    [] call.fn = "destroy" -> None
    [] call.fn = "read" ->
         LET filter == call.args.query.filter
         IN IF Truthy(filter) /\ "id" \in DOMAIN filter[1]
               /\ DOMAIN filter[1]["id"] = {"scalar"}
            THEN Some(Rows(store \cap {filter[1]["id"].scalar}))
            ELSE Some(Rows(store))
    [] call.fn = "related" -> Some(Rows({}))

\* The ids a successful create may store: the client-supplied one if it is
\* free, any free one when none is supplied.
CreatableIds(call) ==
  IF Truthy(call.args.data) /\ TruthyStr(call.args.data[1].id)
  THEN {call.args.data[1].id[1]} \ store
  ELSE Ids \ store

\* The pending adapter call of slot s resolves.
AdapterResolve(s) ==
  /\ slot[s].pc = "pending"
  /\ LET call == LastCall(s)
         n == Len(slot[s].calls)
     IN \E newId \in IF call.fn = "create" THEN CreatableIds(call) ELSE {<<>>} :
          /\ slot' = [slot EXCEPT ![s].calls[n].outcome = Resolved(ResolvesTo(call, newId)),
                                  ![s].pc = "settled"]
          /\ store' = CASE call.fn = "create" -> store \cup {newId}
                        [] call.fn = "destroy" ->
                             IF Truthy(call.args.model)
                             THEN store \ {call.args.model[1].id} ELSE store
                        [] OTHER -> store
  /\ UNCHANGED <<config, live>>

\* The pending adapter call of slot s rejects.
AdapterRejectWith(s, errors) ==
  /\ slot[s].pc = "pending"
  /\ \E e \in errors :
       slot' = [slot EXCEPT ![s].calls[Len(slot[s].calls)].outcome = Rejected(e),
                            ![s].pc = "settled"]
  /\ UNCHANGED <<config, store, live>>

\* The pending adapter call of slot s rejects with any of the errors.
AdapterReject(s) == AdapterRejectWith(s, AdapterErrors)

\* The caller has taken the outcome of the operation of slot s: the values
\* built for the request are dropped and the slot can carry another call.
Return(s) ==
  /\ slot[s].pc = "done"
  /\ slot' = [slot EXCEPT ![s] = IdleSlot]
  /\ UNCHANGED <<config, store, live>>

\* -------------------------------------------------------------------- specs
Next ==
  \E s \in Slots :
    \/ Validate(s)
    \/ Create(s)
    \/ CreateThen(s)
    \/ Read(s)
    \/ ReadThen(s)
    \/ Update(s)
    \/ UpdateThen(s)
    \/ UpdateSettle(s)
    \/ Destroy(s)
    \/ DestroyThen(s)
    \/ Adopt(s)
    \/ AdapterResolve(s)
    \/ AdapterReject(s)
    \/ Return(s)

\* One operation at a time on the handler.
Spec == Init /\ [][Next]_vars

\* ------------------------------------------- operations in flight at once
\* Every slot is live: up to MaxInFlight operations run interleaved on the
\* one handler.  The configuration declares no validators, and the adapter
\* rejects with one error ("busy").
ConcurrentConfigs == { c \in Configs : c.validators = <<>> /\ c.method = "POST" }
ConcurrentFaults == { Err("Error", None, Some(<<98, 117, 115, 121>>)) }

InitConcurrent ==
  /\ config \in ConcurrentConfigs
  /\ store \in SUBSET Ids
  /\ live = Slots
  /\ slot = [s \in Slots |-> IdleSlot]

\* GET /<type> and GET /<type>/:id, without a query string or with
\* filter[id]=1.
ConcurrentReads ==
  { Request(p, q, None, {}) :
      p \in {NoParams} \cup { [NoParams EXCEPT !.id = Some(i)] : i \in Ids },
      q \in { NoQuery, [NoQuery EXCEPT !.filter = Some([id |-> <<49>>])] } }

\* Interleaved collection and single reads.
NextReads ==
  \E s \in Slots :
    \/ ReadOf(s, ConcurrentReads)
    \/ Adopt(s)
    \/ AdapterResolve(s)
    \/ AdapterRejectWith(s, ConcurrentFaults)
    \/ Return(s)

SpecConcurrentReads == InitConcurrent /\ [][NextReads]_vars

\* Interleaved creates.
NextCreates ==
  \E s \in Slots :
    \/ Create(s)
    \/ CreateThen(s)
    \/ Adopt(s)
    \/ AdapterResolve(s)
    \/ AdapterRejectWith(s, ConcurrentFaults)
    \/ Return(s)

SpecConcurrentCreates == InitConcurrent /\ [][NextCreates]_vars

\* ------------------------------------------------------------ properties
\* The adapter calls of slot s to the operation fn.
CallsTo(s, fn) == { i \in 1..Len(slot[s].calls) : slot[s].calls[i].fn = fn }
\* The lookup of slot s has resolved, to a model or to nothing.
LookupFound(s) ==
  /\ Len(slot[s].calls) >= 1
  /\ slot[s].calls[1].fn = "byId"
  /\ slot[s].calls[1].outcome.state = "resolved"
  /\ slot[s].calls[1].outcome.value # None
LookupMissed(s) ==
  /\ Len(slot[s].calls) >= 1
  /\ slot[s].calls[1].fn = "byId"
  /\ slot[s].calls[1].outcome = Resolved(None)
HasData(request) == request.body # None /\ request.body[1].data # None
HasClientId(request) == HasData(request) /\ request.body[1].data[1].id # None

\* C1: for every presence/absence combination of the path parameters id,
\* relation and related, mode is 'collection' without id, 'single' with id
\* alone, 'relation' with id and relation (related present or not), 'related'
\* with id and related but no relation; it is never the indeterminate error.
C1_ModeTable ==
  \A s \in Slots :
    slot[s].op = "read" =>
      LET p == slot[s].req.params
          m == slot[s].mode
      IN /\ m \in {"collection", "single", "relation", "related"}
         /\ (p.id = None => m = "collection")
         /\ (p.id # None /\ p.relation = None /\ p.related = None => m = "single")
         /\ (p.id # None /\ p.relation # None => m = "relation")
         /\ (p.id # None /\ p.relation = None /\ p.related # None => m = "related")

C1_Witness ==
  \E s \in Slots :
    /\ slot[s].op = "read"
    /\ slot[s].req.params.id # None
    /\ slot[s].req.params.relation # None
    /\ slot[s].req.params.related # None
    /\ slot[s].mode = "relation"

\* The first position of the pipeline whose validator reports an error for
\* the request, 0 when none does.
FirstFailing(pipeline, request) ==
  LET failing == { i \in 1..Len(pipeline) : pipeline[i] \in request.rejectedBy }
  IN IF failing = {} THEN 0 ELSE CHOOSE i \in failing : \A j \in failing : i <= j

\* C2: validate calls the validators of its pipeline in pipeline order and
\* stops at the first that reports an error: that error is returned and no
\* later validator is called; when all pass, all are called and no error is
\* returned.
C2_StopsAtFirstError ==
  \A s \in Slots :
    slot[s].op = "validate" =>
      LET pl == slot[s].pipeline
          k == FirstFailing(pl, slot[s].req)
          err == slot[s].result.value
      IN IF k = 0
         THEN slot[s].invoked = pl /\ err = None
         ELSE /\ slot[s].invoked = SubSeq(pl, 1, k)
              /\ err # None
              /\ err[1].kind = pl[k]

C2_Witness ==
  \E s \in Slots :
    /\ slot[s].op = "validate"
    /\ slot[s].pipeline = <<"verifyAccept", "vA", "vB">>
    /\ slot[s].req.rejectedBy = {"vA"}
    /\ slot[s].invoked = <<"verifyAccept", "vA">>
    /\ slot[s].result.value # None

\* C3: the pipeline is the Accept check, then the Content-Type check and the
\* data-object check exactly when the body has a data member, then the
\* configuration's validators in declaration order; no resource-specific
\* validator is called before a built-in one.
C3_PipelineOrder ==
  \A s \in Slots :
    slot[s].op = "validate" =>
      LET pl == slot[s].pipeline
          inv == slot[s].invoked
          builtin == IF HasData(slot[s].req)
                     THEN <<"verifyAccept", "verifyContentType", "verifyDataObject">>
                     ELSE <<"verifyAccept">>
      IN /\ pl = builtin \o config.validators
         /\ \A i, j \in 1..Len(inv) :
              inv[i] \in UserValidators /\ inv[j] \notin UserValidators => j < i

C3_Witness ==
  \E s \in Slots :
    /\ slot[s].op = "validate"
    /\ HasData(slot[s].req)
    /\ Len(config.validators) = 2
    /\ slot[s].invoked =
         <<"verifyAccept", "verifyContentType", "verifyDataObject">> \o config.validators

\* C4: a create whose client-supplied id the lookup finds in the store fails
\* with a 409-tagged error and never calls adapter.create.
C4_CreateConflict ==
  \A s \in Slots :
    slot[s].op = "create" /\ HasClientId(slot[s].req) /\ LookupFound(s) =>
      /\ CallsTo(s, "create") = {}
      /\ slot[s].pc = "done" =>
           /\ slot[s].result.state = "rejected"
           /\ slot[s].result.value[1].status = Some(409)

C4_Witness ==
  \E s \in Slots :
    /\ slot[s].op = "create" /\ HasClientId(slot[s].req) /\ LookupFound(s)
    /\ slot[s].pc = "done"
    /\ slot[s].result.state = "rejected"
    /\ slot[s].result.value[1].status = Some(409)

\* C5: a create without a client-supplied id issues no lookup and calls
\* adapter.create once with (method, body.data); with an id the lookup does
\* not find, exactly one lookup of that id precedes the one adapter.create
\* call; in both cases the outcome of create is the outcome of that call.
C5_CreateDirect ==
  \A s \in Slots :
    slot[s].op = "create" =>
      LET req == slot[s].req
          calls == slot[s].calls
          create == [method |-> config.method, data |-> req.body[1].data]
      IN /\ Cardinality(CallsTo(s, "create")) <= 1
         /\ ~HasClientId(req) =>
              /\ Len(calls) = 1
              /\ calls[1].fn = "create" /\ calls[1].args = create
              /\ slot[s].pc = "done" => slot[s].result = calls[1].outcome
         /\ HasClientId(req) /\ LookupMissed(s) /\ slot[s].pc = "done" =>
              /\ Len(calls) = 2
              /\ calls[1].args.id = req.body[1].data[1].id
              /\ calls[2].fn = "create" /\ calls[2].args = create
              /\ slot[s].result = calls[2].outcome

C5_Witness ==
  \E s \in Slots :
    /\ slot[s].op = "create" /\ HasClientId(slot[s].req) /\ LookupMissed(s)
    /\ slot[s].pc = "done"
    /\ Len(slot[s].calls) = 2
    /\ slot[s].result.state = "resolved"
    /\ slot[s].result.value = Some(Model(slot[s].req.body[1].data[1].id[1]))

\* C6: an update whose lookup finds no resource fails with the 404-tagged
\* error, not re-tagged, and never calls adapter.update, with or without a
\* relation path parameter.
C6_UpdateNotFound ==
  \A s \in Slots :
    slot[s].op = "update" /\ LookupMissed(s) =>
      /\ CallsTo(s, "update") = {}
      /\ slot[s].pc = "done" =>
           /\ slot[s].result.state = "rejected"
           /\ slot[s].result.value[1].kind = "Kapow"
           /\ slot[s].result.value[1].status = Some(404)

C6_Witness ==
  \E s \in Slots :
    /\ slot[s].op = "update" /\ LookupMissed(s)
    /\ slot[s].req.params.relation # None
    /\ slot[s].pc = "done"
    /\ slot[s].result.state = "rejected"
    /\ slot[s].result.value[1].status = Some(404)

\* C7: an update whose lookup finds a model calls adapter.update exactly once
\* with that model, the handler's method label and the payload
\* { type, links: { [relation]: body.data } } when a relation path parameter
\* is present, body.data itself when it is absent.
C7_UpdatePayload ==
  \A s \in Slots :
    slot[s].op = "update" /\ LookupFound(s) =>
      LET req == slot[s].req
          calls == slot[s].calls
          raw == req.body[1].data
          payload ==
            IF req.params.relation # None
            THEN Some([type |-> "chapters",
                       links |-> [r \in {req.params.relation[1]} |-> raw]])
            ELSE raw
      IN /\ Cardinality(CallsTo(s, "update")) <= 1
         /\ Len(calls) <= 2
         /\ slot[s].pc = "done" => Len(calls) = 2
         /\ Len(calls) = 2 =>
              /\ calls[2].fn = "update"
              /\ calls[2].args =
                   [model |-> calls[1].outcome.value, method |-> config.method,
                    data |-> payload]

C7_Witness ==
  \E s \in Slots :
    /\ slot[s].op = "update" /\ LookupFound(s)
    /\ slot[s].req.params.relation = Some("book")
    /\ HasClientId(slot[s].req)
    /\ slot[s].pc = "done"
    /\ slot[s].calls[2].args.data[1].links["book"] = slot[s].req.body[1].data

\* The messages among those the adapter rejects with that contain "null" in
\* some letter case: "NOT NULL", "is null!", "NulL", "nunull", "NULL".
NullMessages ==
  { <<78, 79, 84, 32, 78, 85, 76, 76>>,
    <<105, 115, 32, 110, 117, 108, 108, 33>>,
    <<78, 117, 108, 76>>,
    <<110, 117, 110, 117, 108, 108>>,
    <<78, 85, 76, 76>> }
\* The adapter call of slot s that rejected, if one did.
RejectedCall(s) ==
  /\ Len(slot[s].calls) >= 1
  /\ LastCall(s).outcome.state = "rejected"
RejectionOf(s) == LastCall(s).outcome.value[1]

\* C8: when the adapter rejects an update with an error whose message
\* contains "null" in any letter case, update fails with that same error
\* tagged 409.
C8_NullRetagged ==
  \A s \in Slots :
    /\ slot[s].op = "update" /\ slot[s].pc = "done" /\ RejectedCall(s)
    /\ RejectionOf(s).message # None
    /\ RejectionOf(s).message[1] \in NullMessages
    => /\ slot[s].result.state = "rejected"
       /\ slot[s].result.value[1].status = Some(409)
       /\ slot[s].result.value[1].kind = RejectionOf(s).kind
       /\ slot[s].result.value[1].message = RejectionOf(s).message

C8_Witness ==
  \E s \in Slots :
    /\ slot[s].op = "update" /\ slot[s].pc = "done" /\ RejectedCall(s)
    /\ LastCall(s).fn = "update"
    /\ RejectionOf(s).message = Some(<<78, 79, 84, 32, 78, 85, 76, 76>>)
    /\ slot[s].result.value[1].status = Some(409)

\* C9: every adapter rejection of an update whose value has no message
\* containing "null" (in any letter case) is the failure of update, status
\* and message untouched, also when the value has no message at all.
C9_OthersUnchanged ==
  \A s \in Slots :
    /\ slot[s].op = "update" /\ slot[s].pc = "done" /\ RejectedCall(s)
    /\ \/ RejectionOf(s).message = None
       \/ RejectionOf(s).message[1] \notin NullMessages
    => slot[s].result = Rejected(RejectionOf(s))

\* C10: a destroy whose lookup finds nothing resolves with no value and never
\* calls adapter.destroy; one whose lookup finds a model calls adapter.destroy
\* exactly once with (model, method) and its outcome is that call's outcome.
C10_Destroy ==
  \A s \in Slots :
    slot[s].op = "destroy" =>
      LET calls == slot[s].calls
      IN /\ Cardinality(CallsTo(s, "destroy")) <= 1
         /\ LookupMissed(s) =>
              /\ CallsTo(s, "destroy") = {}
              /\ slot[s].pc = "done" => slot[s].result = Resolved(None)
         /\ LookupFound(s) /\ slot[s].pc = "done" =>
              /\ Len(calls) = 2
              /\ calls[2].fn = "destroy"
              /\ calls[2].args =
                   [model |-> calls[1].outcome.value, method |-> config.method]
              /\ slot[s].result = calls[2].outcome

C10_Witness ==
  \E s \in Slots :
    /\ slot[s].op = "destroy" /\ LookupMissed(s)
    /\ slot[s].pc = "done"
    /\ slot[s].calls = <<[fn |-> "byId",
                          args |-> [id |-> slot[s].req.params.id, relation |-> None],
                          outcome |-> Resolved(None)]>>
    /\ slot[s].result = Resolved(None)

\* The path parameters of the request of slot s select the given mode.
RelatedParams(s) ==
  LET p == slot[s].req.params
  IN p.id # None /\ p.relation = None /\ p.related # None
RelationParams(s) ==
  LET p == slot[s].req.params
  IN p.id # None /\ p.relation # None
SingleParams(s) ==
  LET p == slot[s].req.params
  IN p.id # None /\ p.relation = None /\ p.related = None

\* C11: a read in related mode first looks the base resource up by id,
\* restricted to the related relation; when the lookup finds nothing the read
\* fails with a 404-tagged error and adapter.related is never called;
\* otherwise adapter.related is called exactly once with (query descriptor,
\* relation name, found model); adapter.read is never called in this mode.
C11_ReadRelated ==
  \A s \in Slots :
    slot[s].op = "read" /\ RelatedParams(s) =>
      LET p == slot[s].req.params
          calls == slot[s].calls
      IN /\ CallsTo(s, "read") = {}
         /\ Cardinality(CallsTo(s, "related")) <= 1
         /\ Len(calls) >= 1
         /\ calls[1].fn = "byId"
         /\ calls[1].args = [id |-> p.id, relation |-> p.related]
         /\ LookupMissed(s) =>
              /\ CallsTo(s, "related") = {}
              /\ slot[s].pc = "done" =>
                   /\ slot[s].result.state = "rejected"
                   /\ slot[s].result.value[1].status = Some(404)
         /\ LookupFound(s) /\ slot[s].pc = "done" =>
              /\ Len(calls) = 2
              /\ calls[2].fn = "related"
              /\ calls[2].args =
                   [query |-> Descriptor(Query(slot[s].req, config)),
                    relation |-> p.related,
                    model |-> calls[1].outcome.value]

C11_Witness ==
  \E s \in Slots :
    /\ slot[s].op = "read" /\ RelatedParams(s) /\ LookupMissed(s)
    /\ slot[s].pc = "done"
    /\ Len(slot[s].calls) = 1
    /\ slot[s].result.state = "rejected"
    /\ slot[s].result.value[1].status = Some(404)

\* C12: a read in relation mode (id and relation present) always fails and
\* issues no adapter call at all.
C12_ReadRelation ==
  \A s \in Slots :
    slot[s].op = "read" /\ RelationParams(s) =>
      /\ slot[s].calls = <<>>
      /\ slot[s].pc = "done"
      /\ slot[s].result.state \in {"thrown", "rejected"}

C12_Witness ==
  \E s \in Slots :
    /\ slot[s].op = "read" /\ RelationParams(s)
    /\ slot[s].req.params.related = None
    /\ slot[s].result.state = "thrown"
    /\ slot[s].result.value = Some(NotImplemented)
    /\ slot[s].calls = <<>>

\* C13: every read in single mode (id present, no relation, no related)
\* calls adapter.read exactly once, with mode 'single' and a descriptor
\* whose filter.id is the path id, whether the filter comes from the query
\* string or from the configuration, with or without a default filter there.
C13_SingleFilterId ==
  \A s \in Slots :
    slot[s].op = "read" /\ SingleParams(s) =>
      LET calls == slot[s].calls
      IN /\ Len(calls) = 1
         /\ calls[1].fn = "read"
         /\ calls[1].args.mode = "single"
         /\ calls[1].args.query.filter # None
         /\ "id" \in DOMAIN calls[1].args.query.filter[1]
         /\ calls[1].args.query.filter[1]["id"] = FScalar(slot[s].req.params.id[1])

\* C14: no step of the handler changes its configuration, in particular not
\* a single-mode read that sets filter.id on a descriptor whose filter came
\* from the configuration's default.
C14_ConfigUnchanged == [][config' = config]_vars

C14_Witness ==
  \E s \in Slots :
    /\ slot[s].op = "read" /\ SingleParams(s)
    /\ slot[s].req.query.filter = None
    /\ config.filter # None
    /\ Len(slot[s].calls) = 1
    /\ "id" \in DOMAIN slot[s].calls[1].args.query.filter[1]
    /\ "id" \notin DOMAIN config.filter[1]

\* Slot s is a read that has handed a descriptor to adapter.read.
HandedDescriptor(s) ==
  /\ slot[s].op = "read"
  /\ Len(slot[s].calls) >= 1
  /\ slot[s].calls[1].fn = "read"
DescriptorOf(s) == slot[s].calls[1].args.query

\* C15: with reads interleaved on one handler, two reads of the same request
\* hand equal descriptors to the adapter, a read without a path id and
\* without filter[id] hands a filter without id, and a read with a path id
\* hands its own id as filter.id.
C15_DescriptorIsolation ==
  \A s \in Slots :
    HandedDescriptor(s) =>
      LET req == slot[s].req
          d == DescriptorOf(s)
      IN /\ \A t \in Slots :
              HandedDescriptor(t) /\ slot[t].req = req => DescriptorOf(t) = d
         /\ req.params.id = None /\ req.query.filter = None /\ d.filter # None =>
              "id" \notin DOMAIN d.filter[1]
         /\ req.params.id # None =>
              d.filter[1]["id"] = FScalar(req.params.id[1])

C15_Witness ==
  \E s, t \in Slots :
    /\ s # t
    /\ HandedDescriptor(s) /\ HandedDescriptor(t)
    /\ slot[s].pc = "pending" /\ slot[t].pc = "pending"
    /\ slot[s].req.params.id # None /\ slot[s].req.query.filter = None
    /\ slot[t].req = Request(NoParams, NoQuery, None, {})
    /\ config.filter # None
    /\ DescriptorOf(t).filter = config.filter
    /\ "id" \in DOMAIN DescriptorOf(s).filter[1]

\* Slot s issues adapter.create in this step, with a client-supplied id.
IssuesCreateWithId(s) ==
  /\ Len(slot'[s].calls) = Len(slot[s].calls) + 1
  /\ slot'[s].calls[Len(slot'[s].calls)].fn = "create"
  /\ slot'[s].calls[Len(slot'[s].calls)].args.data # None
  /\ slot'[s].calls[Len(slot'[s].calls)].args.data[1].id # None

\* C16: under any interleaving of creates, adapter.create is never called
\* with a data.id that the store holds at the moment of the call.
C16_NoCollidingCreate ==
  [][\A s \in Slots :
       IssuesCreateWithId(s) =>
         slot'[s].calls[Len(slot'[s].calls)].args.data[1].id[1] \notin store]_vars

\* C17: no create, read, update or destroy call raises an exception
\* synchronously: every failure is a failed pending result.
C17_NeverThrows ==
  \A s \in Slots :
    slot[s].op \in {"create", "read", "update", "destroy"} =>
      slot[s].result.state # "thrown"

AdapterOperations == {"byId", "create", "update", "destroy", "read", "related"}

\* C18: within one operation every adapter operation is called at most once;
\* after an adapter call has failed no further adapter call is issued, and
\* the operation fails with that failure, in update possibly tagged 409.
C18_NoRetry ==
  \A s \in Slots :
    slot[s].op \in {"create", "read", "update", "destroy"} =>
      LET calls == slot[s].calls
      IN /\ \A fn \in AdapterOperations : Cardinality(CallsTo(s, fn)) <= 1
         /\ \A i \in 1..Len(calls) :
              calls[i].outcome.state = "rejected" => i = Len(calls)
         /\ RejectedCall(s) /\ slot[s].pc = "done" =>
              /\ slot[s].result.state = "rejected"
              /\ \/ slot[s].result.value = Some(RejectionOf(s))
                 \/ /\ slot[s].op = "update"
                    /\ slot[s].result.value =
                         Some([RejectionOf(s) EXCEPT !.status = Some(409)])

\* C19: the second adapter call of an operation is issued only once its
\* lookup has resolved; update, destroy and related get exactly the model the
\* lookup resolved to, and create follows a lookup that found nothing.
C19_Sequenced ==
  \A s \in Slots :
    Len(slot[s].calls) >= 2 =>
      LET lookup == slot[s].calls[1]
          second == slot[s].calls[2]
      IN /\ Len(slot[s].calls) = 2
         /\ lookup.fn = "byId"
         /\ lookup.outcome.state = "resolved"
         /\ second.fn \in {"create", "update", "destroy", "related"}
         /\ second.fn = "create" => lookup.outcome.value = None
         /\ second.fn # "create" =>
              /\ lookup.outcome.value # None
              /\ second.args.model = lookup.outcome.value

C19_Witness ==
  \E s \in Slots :
    /\ slot[s].op = "destroy"
    /\ Len(slot[s].calls) = 2
    /\ slot[s].pc = "pending"
    /\ slot[s].calls[1].outcome = Resolved(Some(Model(slot[s].req.params.id[1])))
    /\ slot[s].calls[2].args.model = Some(Model(slot[s].req.params.id[1]))

====
